---- MODULE Spec2Model ----
(***************************************************************************)
(* Model of the semantic-layer demo: the definition repository             *)
(* (backend/semantic_parser.py), the SQL query generator                   *)
(* (backend/query_generator.py) and the request loop of the LLM client     *)
(* (backend/llm_client.py).                                                *)
(*                                                                         *)
(* Text is modelled as a sequence of atoms (strings): keywords, column     *)
(* names, operators, parentheses and the white-space atoms " " and "\n".   *)
(* Python's str.strip, str.join and the substring test `x in s` are        *)
(* modelled on these sequences.                                            *)
(***************************************************************************)
EXTENDS Integers, Sequences, FiniteSets, TLC

VARIABLES taxonomy, metadata, metrics,   \* SemanticLayerParser's loaded documents
          call, result,                  \* the last operation called and what it gave
          saved,                         \* an earlier generator call kept with its result
          outcomes, halted               \* the request loop: one outcome per request, process state

repo == <<taxonomy, metadata, metrics>>
api  == <<call, result, saved>>
loop == <<outcomes, halted>>
vars == <<taxonomy, metadata, metrics, call, result, saved, outcomes, halted>>

----------------------------------------------------------------------------
(* Python values *)

None == "<None>"          \* Python's None, as returned by dict.get on a missing key
Missing == "<missing>"    \* a key that a dict does not have (d[k] raises KeyError)

\* None as returned by a lookup that finds nothing (kept a record, like what it finds)
NotFound == [none |-> TRUE]

\* truth value of a string-or-None (`if segment_type and segment_name`)
Truthy(v) == v # None /\ v # ""

\* d.get(k) on a dict whose key k may be absent
DictGet(v) == IF v = Missing THEN None ELSE v

WS == {" ", "\n"}

RECURSIVE lstrip(_)
lstrip(s) == IF s # <<>> /\ Head(s) \in WS THEN lstrip(Tail(s)) ELSE s

RECURSIVE rstrip(_)
rstrip(s) == IF s # <<>> /\ s[Len(s)] \in WS THEN rstrip(SubSeq(s, 1, Len(s) - 1)) ELSE s

strip(s) == rstrip(lstrip(s))

\* Python's `needle in hay` on text
Contains(needle, hay) ==
    \E k \in 0..(Len(hay) - Len(needle)) : SubSeq(hay, k + 1, k + Len(needle)) = needle

RECURSIVE join(_, _)
join(sep, parts) ==
    IF parts = <<>> THEN <<>>
    ELSE IF Len(parts) = 1 THEN parts[1]
    ELSE parts[1] \o sep \o join(sep, Tail(parts))

----------------------------------------------------------------------------
(* The configuration documents a SemanticLayerParser can hold after load_all *)

SegParents    == [name |-> "parents",     definition |-> <<"Kidhome", "+", "Teenhome", ">", "0">>, label |-> "Parents"]
SegNoChildren == [name |-> "no_children", definition |-> <<"Kidhome", "+", "Teenhome", "=", "0">>, label |-> "No Children"]

\* taxonomy.yml: type -> name -> {definition, label}, both levels in insertion order
Taxonomies ==
    { << [type |-> "family_status", segments |-> <<SegParents, SegNoChildren>>],
         [type |-> "value_tiers",   segments |-> <<>>] >>,
      << [type |-> "value_tiers",   segments |-> <<>>],
         [type |-> "family_status", segments |-> <<SegNoChildren, SegParents>>] >> }

\* semantic_layer.yml: the metric list
MetricCatalogs ==
    { << [name |-> "total_spending",          type |-> "sum",
          sql |-> <<"MntWines", "+", "MntMeatProducts", "\n">>],
         [name |-> "customer_lifetime_value", type |-> "calculated",
          sql |-> <<"Income", "*", "NumPurchases">>],
         [name |-> "income",                  type |-> "raw",
          sql |-> <<"Income">>],
         [name |-> "recency",                 type |-> "raw",
          sql |-> <<"Recency">>] >> }

\* metadata.yml: column name -> metadata
MetadataDocs ==
    { << [column |-> "Income",   display_name |-> "Household Income"],
         [column |-> "MntWines", display_name |-> "Wine Spending"] >> }

\* The arguments callers pass
MetricNames  == {"total_spending", "customer_lifetime_value", "income", "recency", "nonexistent_metric"}
SegmentTypes == {"family_status", "value_tiers", "unknown_type"}
SegmentNames == {"parents", "no_children", "ghost"}
ColumnNames  == {"Income", "Unknown"}

----------------------------------------------------------------------------
(* SemanticLayerParser *)

RECURSIVE TypeEntry(_, _)
\* taxonomy.get(segment_type, {}): the segments stored under the type, <<>> if none
TypeEntry(tax, segment_type) ==
    IF tax = <<>> THEN <<>>
    ELSE IF Head(tax).type = segment_type THEN Head(tax).segments
    ELSE TypeEntry(Tail(tax), segment_type)

\* (variant: taxonomy.setdefault(segment_type, {}) in place of .get)
taxonomy_after_get_setdefault(tax, segment_type) ==
    IF \E k \in 1..Len(tax) : tax[k].type = segment_type THEN tax
    ELSE Append(tax, [type |-> segment_type, segments |-> <<>>])

\* what self.taxonomy is after taxonomy.get(segment_type, {}): dict.get inserts nothing
taxonomy_after_get(tax, segment_type) == tax

RECURSIVE FindSegment(_, _)
FindSegment(segments, segment_name) ==
    IF segments = <<>> THEN NotFound
    ELSE IF Head(segments).name = segment_name THEN Head(segments)
    ELSE FindSegment(Tail(segments), segment_name)

get_customer_segment(segment_type, segment_name) ==
    FindSegment(TypeEntry(taxonomy, segment_type), segment_name)

RECURSIVE FindMetric(_, _)
FindMetric(metrics_list, metric_name) ==
    IF metrics_list = <<>> THEN NotFound
    ELSE IF Head(metrics_list).name = metric_name THEN Head(metrics_list)
    ELSE FindMetric(Tail(metrics_list), metric_name)

get_metric(metric_name) == FindMetric(metrics, metric_name)

RECURSIVE FindColumn(_, _)
FindColumn(columns, column_name) ==
    IF columns = <<>> THEN NotFound
    ELSE IF Head(columns).column = column_name THEN Head(columns)
    ELSE FindColumn(Tail(columns), column_name)

get_column_metadata(column_name) == FindColumn(metadata, column_name)

\* every type but 'metadata', with the names stored under it, in insertion order
list_all_segments ==
    LET listed == SelectSeq(taxonomy, LAMBDA entry : entry.type \notin {"metadata"})
    IN  [k \in 1..Len(listed) |->
            [type  |-> listed[k].type,
             names |-> [j \in 1..Len(listed[k].segments) |-> listed[k].segments[j].name]]]

list_all_metrics == [k \in 1..Len(metrics) |-> metrics[k].name]

----------------------------------------------------------------------------
(* QueryGenerator *)

Sql(text)       == [kind |-> "sql", sql |-> text]
ValueError(m)   == [kind |-> "ValueError", msg |-> m]
KeyError(k)     == [kind |-> "KeyError", key |-> k]

NoFilters == [none |-> TRUE]    \* filters=None

\* `if filters:` -- None and the empty dict are false
FiltersGiven(filters) ==
    /\ filters # NoFilters
    /\ ~(filters.segment_type = Missing /\ filters.segment = Missing)

\* (variant: where_clauses kept on the generator between calls instead of reset on line 55)
where_clauses_of_shared(filters) ==
    LET W(f) == IF ~FiltersGiven(f) THEN <<>>
                ELSE IF Truthy(DictGet(f.segment_type)) /\ Truthy(DictGet(f.segment))
                        /\ get_customer_segment(DictGet(f.segment_type), DictGet(f.segment)) # NotFound
                THEN << <<"(">> \o get_customer_segment(DictGet(f.segment_type), DictGet(f.segment)).definition
                               \o <<")">> >>
                ELSE <<>>
    IN  IF call.op = "generate_metric_sql" /\ result.kind = "sql"
        THEN W(call.args[2]) \o W(filters)
        ELSE W(filters)

\* lines 55-65: the WHERE predicates collected from the filters
where_clauses_of(filters) ==
    IF ~FiltersGiven(filters) THEN <<>>
    ELSE LET segment_type == DictGet(filters.segment_type)
             segment_name == DictGet(filters.segment)
         IN  IF Truthy(segment_type) /\ Truthy(segment_name)
             THEN LET segment == get_customer_segment(segment_type, segment_name)
                  IN  IF segment # NotFound
                      THEN << <<"(">> \o segment.definition \o <<")">> >>
                      ELSE <<>>
             ELSE <<>>

IncomeNotNull == <<"Income", "IS", "NOT", "NULL">>

generate_metric_sql(metric_name, filters) ==
    LET metric == get_metric(metric_name)
    IN  IF metric = NotFound
        THEN ValueError("Metric not found in semantic layer")
        ELSE
        LET metric_sql    == strip(metric.sql)
            where_clauses == where_clauses_of(filters)
            select_clause == <<"AVG", "(">> \o metric_sql \o <<")", "as", "value">>
            base   == <<"\n", "SELECT", "\n">> \o select_clause
                          \o <<"\n", "FROM", "customers", "\n">>
            filtered == IF where_clauses # <<>>
                        THEN base \o <<"\n", "WHERE">> \o join(<<"AND">>, where_clauses)
                        ELSE base
            aggregate == IF Contains(<<"Income">>, metric_sql)
                         THEN IF where_clauses # <<>>
                              THEN filtered \o <<"\n", " ", "AND">> \o IncomeNotNull
                              ELSE filtered \o <<"\n", "WHERE">> \o IncomeNotNull
                         ELSE filtered
            query  == IF metric.type = "sum" \/ metric.type = "calculated"
                      THEN aggregate
                      ELSE <<"SELECT">> \o metric_sql \o <<"FROM", "customers">>
        IN  Sql(strip(query))

RECURSIVE case_clauses_of_reversed(_)
\* (variant: the WHEN clauses built last entry first)
case_clauses_of_reversed(segments) ==
    IF segments = <<>> THEN <<>>
    ELSE LET seg_def == segments[Len(segments)]
             rest    == case_clauses_of_reversed(SubSeq(segments, 1, Len(segments) - 1))
         IN  << <<"WHEN">> \o seg_def.definition \o <<"THEN", "'", seg_def.label, "'">> >> \o rest

RECURSIVE case_clauses_of(_)
\* lines 117-123: one WHEN clause per entry that is a mapping with a definition
case_clauses_of(segments) ==
    IF segments = <<>> THEN <<>>
    ELSE LET seg_def == Head(segments)
             rest    == case_clauses_of(Tail(segments))
         IN  IF seg_def.definition # <<>>
             THEN << <<"WHEN">> \o seg_def.definition \o <<"THEN", "'", seg_def.label, "'">> >> \o rest
             ELSE rest

generate_segment_breakdown(metric_name, segment_type) ==
    LET metric == get_metric(metric_name)
    IN  IF metric = NotFound
        THEN ValueError("Metric not found")
        ELSE
        LET metric_sql     == strip(metric.sql)
            segments       == TypeEntry(taxonomy, segment_type)
            case_clauses   == case_clauses_of(segments)
            case_statement == <<"CASE", "\n">> \o join(<<"\n">>, case_clauses)
                                  \o <<"\n", "ELSE", "'", "Other", "'", "\n", "END">>
            query == <<"\n", "SELECT", "\n">> \o case_statement \o <<"as", "segment", ",", "\n">>
                       \o <<"COUNT(*)", "as", "customer_count", ",", "\n">>
                       \o <<"ROUND", "(", "AVG", "(">> \o metric_sql \o <<")", ",", "2", ")", "as", "avg_value", "\n">>
                       \o <<"FROM", "customers", "\n">>
                       \o <<"WHERE">> \o IncomeNotNull \o <<"\n">>
                       \o <<"GROUP", "BY", "segment", "\n">>
                       \o <<"ORDER", "BY", "avg_value", "DESC", "\n">>
        IN  Sql(strip(query))

\* (variant: the block grouped by its label column)
comparison_block_grouped(seg, metric_sql) ==
    <<"SELECT", "\n", "'", seg.label, "'", "as", "segment", ",", "\n">>
        \o <<"COUNT(*)", "as", "customers", ",", "\n">>
        \o <<"ROUND", "(", "AVG", "(">> \o metric_sql \o <<")", ",", "2", ")", "as", "avg_value", "\n">>
        \o <<"FROM", "customers", "\n">>
        \o <<"WHERE", "(">> \o seg.definition \o <<")", "\n">>
        \o <<" ", "AND">> \o IncomeNotNull \o <<"\n">>
        \o <<"GROUP", "BY", "segment", "\n">>

\* lines 167-173 and 177-183: one SELECT block of the comparison
comparison_block(seg, metric_sql) ==
    <<"SELECT", "\n", "'", seg.label, "'", "as", "segment", ",", "\n">>
        \o <<"COUNT(*)", "as", "customers", ",", "\n">>
        \o <<"ROUND", "(", "AVG", "(">> \o metric_sql \o <<")", ",", "2", ")", "as", "avg_value", "\n">>
        \o <<"FROM", "customers", "\n">>
        \o <<"WHERE", "(">> \o seg.definition \o <<")", "\n">>
        \o <<" ", "AND">> \o IncomeNotNull \o <<"\n">>

\* (variant: the segments looked up before the metric)
generate_comparison_query_segments_first(metric_name, segment_a, segment_b) ==
    IF segment_a.type = Missing THEN KeyError("type")
    ELSE IF segment_a.name = Missing THEN KeyError("name")
    ELSE IF segment_b.type = Missing THEN KeyError("type")
    ELSE IF segment_b.name = Missing THEN KeyError("name")
    ELSE
    LET metric == get_metric(metric_name)
        seg_a == get_customer_segment(segment_a.type, segment_a.name)
        seg_b == get_customer_segment(segment_b.type, segment_b.name)
    IN  IF seg_a = NotFound \/ seg_b = NotFound
        THEN ValueError("Segment not found")
        ELSE IF metric = NotFound
        THEN ValueError("Metric not found")
        ELSE Sql(strip(<<"\n">> \o comparison_block(seg_a, strip(metric.sql))
                        \o <<"\n", "UNION", "ALL", "\n", "\n">>
                        \o comparison_block(seg_b, strip(metric.sql))))

generate_comparison_query(metric_name, segment_a, segment_b) ==
    LET metric == get_metric(metric_name)
    IN  IF metric = NotFound
        THEN ValueError("Metric not found")
        ELSE IF segment_a.type = Missing THEN KeyError("type")
        ELSE IF segment_a.name = Missing THEN KeyError("name")
        ELSE IF segment_b.type = Missing THEN KeyError("type")
        ELSE IF segment_b.name = Missing THEN KeyError("name")
        ELSE
        LET metric_sql == strip(metric.sql)
            seg_a == get_customer_segment(segment_a.type, segment_a.name)
            seg_b == get_customer_segment(segment_b.type, segment_b.name)
        IN  IF seg_a = NotFound \/ seg_b = NotFound
            THEN ValueError("Segment not found")
            ELSE Sql(strip(<<"\n">> \o comparison_block(seg_a, metric_sql)
                            \o <<"\n", "UNION", "ALL", "\n", "\n">>
                            \o comparison_block(seg_b, metric_sql)))

\* self.parser.taxonomy after each generator operation: the lookups it makes, in order
taxonomy_after_generate_metric_sql(metric_name, filters) ==
    IF /\ get_metric(metric_name) # NotFound
       /\ FiltersGiven(filters)
       /\ Truthy(DictGet(filters.segment_type))
       /\ Truthy(DictGet(filters.segment))
    THEN taxonomy_after_get(taxonomy, DictGet(filters.segment_type))
    ELSE taxonomy

taxonomy_after_generate_segment_breakdown(metric_name, segment_type) ==
    IF get_metric(metric_name) # NotFound
    THEN taxonomy_after_get(taxonomy, segment_type)
    ELSE taxonomy

taxonomy_after_generate_comparison_query(metric_name, segment_a, segment_b) ==
    IF get_metric(metric_name) = NotFound \/ segment_a.type = Missing \/ segment_a.name = Missing
    THEN taxonomy
    ELSE IF segment_b.type = Missing \/ segment_b.name = Missing
    THEN taxonomy_after_get(taxonomy, segment_a.type)
    ELSE taxonomy_after_get(taxonomy_after_get(taxonomy, segment_a.type), segment_b.type)

----------------------------------------------------------------------------
(* Calls on a loaded parser and generator *)

FilterArgs ==
    { NoFilters,
      [segment_type |-> "family_status", segment |-> "parents"],
      [segment_type |-> "family_status", segment |-> "ghost"],
      [segment_type |-> "unknown_type",  segment |-> "parents"],
      [segment_type |-> "family_status", segment |-> Missing],
      [segment_type |-> Missing,         segment |-> Missing] }

SegmentRefArgs ==
    { [type |-> "family_status", name |-> "parents"],
      [type |-> "family_status", name |-> "no_children"],
      [type |-> "family_status", name |-> "ghost"],
      [type |-> Missing,         name |-> "parents"] }

NoCall  == [op |-> "none", args |-> <<>>]
NoSaved == [none |-> TRUE]

\* the kept call is marked once a generator call has been made after it
Later(sv) == IF sv = NoSaved THEN sv ELSE [sv EXCEPT !.later = TRUE]

GeneratorOps == {"generate_metric_sql", "generate_segment_breakdown", "generate_comparison_query"}

Init ==
    /\ taxonomy \in Taxonomies
    /\ metadata \in MetadataDocs
    /\ metrics \in MetricCatalogs
    /\ call = NoCall
    /\ result = NotFound
    /\ saved = NoSaved
    /\ outcomes = <<>>
    /\ halted = FALSE

GenerateMetricSql ==
    \E metric_name \in MetricNames, filters \in FilterArgs :
        /\ call' = [op |-> "generate_metric_sql", args |-> <<metric_name, filters>>]
        /\ result' = generate_metric_sql(metric_name, filters)
        /\ taxonomy' = taxonomy_after_generate_metric_sql(metric_name, filters)
        /\ saved' = Later(saved)
        /\ UNCHANGED <<metadata, metrics, loop>>

GenerateSegmentBreakdown ==
    \E metric_name \in MetricNames, segment_type \in SegmentTypes :
        /\ call' = [op |-> "generate_segment_breakdown", args |-> <<metric_name, segment_type>>]
        /\ result' = generate_segment_breakdown(metric_name, segment_type)
        /\ taxonomy' = taxonomy_after_generate_segment_breakdown(metric_name, segment_type)
        /\ saved' = Later(saved)
        /\ UNCHANGED <<metadata, metrics, loop>>

GenerateComparisonQuery ==
    \E metric_name \in MetricNames, segment_a \in SegmentRefArgs, segment_b \in SegmentRefArgs :
        /\ call' = [op |-> "generate_comparison_query", args |-> <<metric_name, segment_a, segment_b>>]
        /\ result' = generate_comparison_query(metric_name, segment_a, segment_b)
        /\ taxonomy' = taxonomy_after_generate_comparison_query(metric_name, segment_a, segment_b)
        /\ saved' = Later(saved)
        /\ UNCHANGED <<metadata, metrics, loop>>

GetMetric ==
    \E metric_name \in MetricNames :
        /\ call' = [op |-> "get_metric", args |-> <<metric_name>>]
        /\ result' = get_metric(metric_name)
        /\ UNCHANGED <<repo, saved, loop>>

GetCustomerSegment ==
    \E segment_type \in SegmentTypes, segment_name \in SegmentNames :
        /\ call' = [op |-> "get_customer_segment", args |-> <<segment_type, segment_name>>]
        /\ result' = get_customer_segment(segment_type, segment_name)
        /\ taxonomy' = taxonomy_after_get(taxonomy, segment_type)
        /\ UNCHANGED <<metadata, metrics, saved, loop>>

GetColumnMetadata ==
    \E column_name \in ColumnNames :
        /\ call' = [op |-> "get_column_metadata", args |-> <<column_name>>]
        /\ result' = get_column_metadata(column_name)
        /\ UNCHANGED <<repo, saved, loop>>

ListAllSegments ==
    /\ call' = [op |-> "list_all_segments", args |-> <<>>]
    /\ result' = [value |-> list_all_segments]
    /\ UNCHANGED <<repo, saved, loop>>

ListAllMetrics ==
    /\ call' = [op |-> "list_all_metrics", args |-> <<>>]
    /\ result' = [value |-> list_all_metrics]
    /\ UNCHANGED <<repo, saved, loop>>

\* an observer keeps the last generator call and its result, to compare later calls with
Remember ==
    /\ call.op \in GeneratorOps
    /\ saved' = [call |-> call, result |-> result, later |-> FALSE]
    /\ UNCHANGED <<repo, call, result, loop>>

Next ==
    \/ GenerateMetricSql
    \/ GenerateSegmentBreakdown
    \/ GenerateComparisonQuery
    \/ GetMetric
    \/ GetCustomerSegment
    \/ GetColumnMetadata
    \/ ListAllSegments
    \/ ListAllMetrics

Spec == Init /\ [][Next]_vars

\* the same calls, watched by the observer
NextObserved == Next \/ Remember

SpecObserved == Init /\ [][NextObserved]_vars

----------------------------------------------------------------------------
(* The request loop of llm_client.py: one intent per question, dispatched on its tag *)

MaxRequests == 3

RefParents    == [type |-> "family_status", name |-> "parents"]
RefNoChildren == [type |-> "family_status", name |-> "no_children"]

Intent(tag, metric, segment_type, segment, comparison) ==
    [intent |-> tag, metric |-> metric, segment_type |-> segment_type,
     segment |-> segment, comparison |-> comparison]

NoComparison == [none |-> TRUE]                      \* the intent has no 'comparison' key
Comparison(a, b) == [segment_a |-> a, segment_b |-> b]
NoRef == [none |-> TRUE]                             \* the comparison has no such key

\* what parse_question can return: the decoded reply of the model, or the error dict
Intents ==
    { Intent("metric_query", "total_spending", Missing, Missing, NoComparison),
      Intent("metric_query", "customer_lifetime_value", "family_status", "parents", NoComparison),
      Intent("metric_query", "total_spending", "family_status", "ghost", NoComparison),
      Intent("metric_query", "total_spending", Missing, "parents", NoComparison),
      Intent("metric_query", "nonexistent_metric", Missing, Missing, NoComparison),
      Intent("metric_query", Missing, Missing, Missing, NoComparison),
      Intent("segment_breakdown", "total_spending", "family_status", Missing, NoComparison),
      Intent("segment_breakdown", "total_spending", Missing, Missing, NoComparison),
      Intent("segment_breakdown", Missing, "family_status", Missing, NoComparison),
      Intent("comparison", "total_spending", Missing, Missing, Comparison(RefParents, RefNoChildren)),
      Intent("comparison", "total_spending", Missing, Missing,
             Comparison(RefParents, [type |-> "family_status", name |-> "ghost"])),
      Intent("comparison", "total_spending", Missing, Missing,
             Comparison([type |-> Missing, name |-> "parents"], RefNoChildren)),
      Intent("comparison", "total_spending", Missing, Missing, Comparison(RefParents, NoRef)),
      Intent("comparison", "total_spending", Missing, Missing, NoComparison),
      Intent("comparison", Missing, Missing, Missing, Comparison(RefParents, RefNoChildren)),
      Intent("error", Missing, Missing, Missing, NoComparison),
      Intent("trend_analysis", "total_spending", Missing, Missing, NoComparison),
      Intent(Missing, "total_spending", Missing, Missing, NoComparison) }

\* one iteration's outcome: the SQL was generated and run ("sql"), the else branch printed
\* the intent ("error_result"), or an exception left the loop ("crash")
Outcome(intent, kind, generator, res) ==
    [intent |-> intent, kind |-> kind, generator |-> generator, result |-> res]

\* the generated SQL is handed to the database (con.execute), taken to succeed;
\* an exception of the generator is not caught anywhere in the loop
OutcomeOfCall(intent, op, res) ==
    Outcome(intent, IF res.kind = "sql" THEN "sql" ELSE "crash", op, res)

\* lines 138-151
dispatch_metric_query(intent) ==
    LET filters == IF Truthy(DictGet(intent.segment))
                   THEN [segment_type |-> DictGet(intent.segment_type),
                         segment |-> DictGet(intent.segment)]
                   ELSE NoFilters
    IN  IF intent.metric = Missing
        THEN Outcome(intent, "crash", "none", KeyError("metric"))
        ELSE OutcomeOfCall(intent, "generate_metric_sql",
                           generate_metric_sql(intent.metric, filters))

\* lines 153-163
dispatch_segment_breakdown(intent) ==
    IF intent.metric = Missing
    THEN Outcome(intent, "crash", "none", KeyError("metric"))
    ELSE IF intent.segment_type = Missing
    THEN Outcome(intent, "crash", "none", KeyError("segment_type"))
    ELSE OutcomeOfCall(intent, "generate_segment_breakdown",
                       generate_segment_breakdown(intent.metric, intent.segment_type))

\* lines 165-177
dispatch_comparison(intent) ==
    IF intent.comparison = NoComparison
    THEN Outcome(intent, "crash", "none", KeyError("comparison"))
    ELSE IF intent.metric = Missing
    THEN Outcome(intent, "crash", "none", KeyError("metric"))
    ELSE IF intent.comparison.segment_a = NoRef
    THEN Outcome(intent, "crash", "none", KeyError("segment_a"))
    ELSE IF intent.comparison.segment_b = NoRef
    THEN Outcome(intent, "crash", "none", KeyError("segment_b"))
    ELSE OutcomeOfCall(intent, "generate_comparison_query",
                       generate_comparison_query(intent.metric, intent.comparison.segment_a,
                                                 intent.comparison.segment_b))

\* lines 179-180
dispatch_else(intent) == Outcome(intent, "error_result", "none", NotFound)

\* an uncaught exception ends the for loop and the process
Step(outcome) ==
    /\ outcomes' = Append(outcomes, outcome)
    /\ halted' = (outcome.kind = "crash")
    /\ UNCHANGED <<repo, api>>

CanProcess == ~halted /\ Len(outcomes) < MaxRequests

RequestMetricQuery ==
    /\ CanProcess
    /\ \E intent \in Intents :
          /\ DictGet(intent.intent) = "metric_query"
          /\ Step(dispatch_metric_query(intent))

RequestSegmentBreakdown ==
    /\ CanProcess
    /\ \E intent \in Intents :
          /\ DictGet(intent.intent) = "segment_breakdown"
          /\ Step(dispatch_segment_breakdown(intent))

RequestComparison ==
    /\ CanProcess
    /\ \E intent \in Intents :
          /\ DictGet(intent.intent) = "comparison"
          /\ Step(dispatch_comparison(intent))

RequestOther ==
    /\ CanProcess
    /\ \E intent \in Intents :
          /\ DictGet(intent.intent) \notin {"metric_query", "segment_breakdown", "comparison"}
          /\ Step(dispatch_else(intent))

NextLoop ==
    \/ RequestMetricQuery
    \/ RequestSegmentBreakdown
    \/ RequestComparison
    \/ RequestOther

SpecLoop == Init /\ [][NextLoop]_vars

----------------------------------------------------------------------------
(* Vocabulary of the properties, stated on the repository and on the SQL text *)

MetricResolves(metric_name) == \E k \in 1..Len(metrics) : metrics[k].name = metric_name

MetricNamed(metric_name) == metrics[CHOOSE k \in 1..Len(metrics) : metrics[k].name = metric_name]

StoredSegments(segment_type) ==
    IF \E k \in 1..Len(taxonomy) : taxonomy[k].type = segment_type
    THEN taxonomy[CHOOSE k \in 1..Len(taxonomy) : taxonomy[k].type = segment_type].segments
    ELSE <<>>

SegmentResolves(segment_type, segment_name) ==
    \E j \in 1..Len(StoredSegments(segment_type)) :
        StoredSegments(segment_type)[j].name = segment_name

SegmentNamed(segment_type, segment_name) ==
    LET segs == StoredSegments(segment_type)
    IN  segs[CHOOSE j \in 1..Len(segs) : segs[j].name = segment_name]

IsName(v) == v # Missing /\ v # None

\* the text without its white space
Words(text) == SelectSeq(text, LAMBDA a : a \notin WS)

\* where an atom occurs in a text, in increasing order
Positions(text, atom) ==
    LET RECURSIVE P(_)
        P(i) == IF i > Len(text) THEN <<>>
                ELSE IF text[i] = atom THEN <<i>> \o P(i + 1) ELSE P(i + 1)
    IN  P(1)

Count(text, atom) == Len(Positions(text, atom))

StartsAt(text, i, part) == i + Len(part) - 1 <= Len(text) /\ SubSeq(text, i, i + Len(part) - 1) = part

UnknownMetricError(r) ==
    r.kind = "ValueError" /\ r.msg \in {"Metric not found in semantic layer", "Metric not found"}

UnknownSegmentError(r) == r.kind = "ValueError" /\ r.msg = "Segment not found"

----------------------------------------------------------------------------
(* C1: each of the three generator operations, called with a metric name that
   does not resolve in the repository, ends in the unknown-metric error and
   returns no SQL, whatever its other arguments are. *)
C1_UnknownMetricRejected ==
    (call.op \in GeneratorOps /\ ~MetricResolves(call.args[1]))
        => (UnknownMetricError(result) /\ result.kind # "sql")

\* an unknown metric together with a segment reference that has no 'type' key
C1_Witness ==
    /\ call.op = "generate_comparison_query"
    /\ ~MetricResolves(call.args[1])
    /\ call.args[2].type = Missing
    /\ UnknownMetricError(result)

(* C2: a request that names a segment (type, name) which does not resolve is
   rejected with the unknown-segment error and never returns SQL: for
   generate_metric_sql with such a filter, and for generate_comparison_query
   when segment_a or segment_b does not resolve. *)
C2_UnknownSegmentRejected ==
    /\ (/\ call.op = "generate_metric_sql"
        /\ MetricResolves(call.args[1])
        /\ call.args[2] # NoFilters
        /\ IsName(call.args[2].segment_type) /\ IsName(call.args[2].segment)
        /\ ~SegmentResolves(call.args[2].segment_type, call.args[2].segment))
           => (UnknownSegmentError(result) /\ result.kind # "sql")
    /\ (/\ call.op = "generate_comparison_query"
        /\ MetricResolves(call.args[1])
        /\ \E ref \in {call.args[2], call.args[3]} :
              IsName(ref.type) /\ IsName(ref.name) /\ ~SegmentResolves(ref.type, ref.name)
        /\ \A ref \in {call.args[2], call.args[3]} : IsName(ref.type) /\ IsName(ref.name))
           => (UnknownSegmentError(result) /\ result.kind # "sql")

(* C3: for every metric and segment that both resolve, whatever the metric's
   classification, generate_metric_sql with the segment as filter returns SQL
   whose WHERE clause contains the segment's definition in parentheses. *)
C3_FilterInWhereClause ==
    (/\ call.op = "generate_metric_sql"
     /\ MetricResolves(call.args[1])
     /\ call.args[2] # NoFilters
     /\ IsName(call.args[2].segment_type) /\ IsName(call.args[2].segment)
     /\ SegmentResolves(call.args[2].segment_type, call.args[2].segment))
        => /\ result.kind = "sql"
           /\ LET text == Words(result.sql)
                  definition == SegmentNamed(call.args[2].segment_type, call.args[2].segment).definition
              IN  \E i \in 1..Len(text) :
                      /\ text[i] = "WHERE"
                      /\ \E j \in (i + 1)..Len(text) :
                             StartsAt(text, j, <<"(">> \o definition \o <<")">>)

(* C4: for every resolvable metric, generate_metric_sql without a filter
   returns SQL with no WHERE clause when the metric expression does not
   contain Income, and with exactly one WHERE clause holding
   Income IS NOT NULL when it does, for every classification. *)
C4_NullFilterWithoutFilter ==
    (/\ call.op = "generate_metric_sql"
     /\ MetricResolves(call.args[1])
     /\ call.args[2] = NoFilters)
        => /\ result.kind = "sql"
           /\ LET text == Words(result.sql)
              IN  IF Contains(<<"Income">>, MetricNamed(call.args[1]).sql)
                  THEN /\ Count(text, "WHERE") = 1
                       /\ \E i \in 1..Len(text) :
                              text[i] = "WHERE" /\ \E j \in (i + 1)..Len(text) :
                                                      StartsAt(text, j, IncomeNotNull)
                  ELSE Count(text, "WHERE") = 0

(* C5: for every resolvable metric and every segment type,
   generate_segment_breakdown returns a CASE expression with exactly one WHEN
   branch per segment stored under the type, in the repository's insertion
   order, followed by exactly one ELSE 'Other' branch; an empty or unknown
   type gives no WHEN branch and the one ELSE branch, and no error. *)
C5_OneWhenPerSegmentInOrder ==
    (call.op = "generate_segment_breakdown" /\ MetricResolves(call.args[1]))
        => /\ result.kind = "sql"
           /\ LET text  == Words(result.sql)
                  segs  == StoredSegments(call.args[2])
                  whens == Positions(text, "WHEN")
                  elses == Positions(text, "ELSE")
              IN  /\ Count(text, "CASE") = 1 /\ Count(text, "END") = 1
                  /\ Len(whens) = Len(segs)
                  /\ \A k \in 1..Len(segs) :
                         StartsAt(text, whens[k],
                                  <<"WHEN">> \o segs[k].definition
                                      \o <<"THEN", "'", segs[k].label, "'">>)
                  /\ Len(elses) = 1
                  /\ StartsAt(text, elses[1], <<"ELSE", "'", "Other", "'", "END">>)
                  /\ \A k \in 1..Len(whens) : whens[k] < elses[1]

\* a breakdown over a type with two segments, stored in non-alphabetical order
C5_Witness ==
    /\ call.op = "generate_segment_breakdown"
    /\ MetricResolves(call.args[1])
    /\ Len(StoredSegments(call.args[2])) = 2
    /\ StoredSegments(call.args[2])[1].name = "parents"
    /\ result.kind = "sql"
    /\ Count(result.sql, "WHEN") = 2

\* the rows a statement yields on any table: one per ungrouped aggregate SELECT,
\* the blocks of a UNION ALL added up; "any" when a block is grouped or deduplicated
ResultRows(text) ==
    IF /\ Count(text, "GROUP") = 0
       /\ Count(text, "SELECT") = Count(text, "COUNT(*)")
       /\ \A i \in 1..Len(text) : text[i] = "UNION" => StartsAt(text, i, <<"UNION", "ALL">>)
       /\ Count(text, "SELECT") = Count(text, "UNION") + 1
    THEN Count(text, "SELECT")
    ELSE -1

BlockFor(block, seg) ==
    /\ Count(block, "SELECT") = 1
    /\ StartsAt(block, 1, <<"SELECT", "'", seg.label, "'", "as", "segment">>)
    /\ Count(block, "WHERE") = 1
    /\ \E i \in 1..Len(block) :
          StartsAt(block, i, <<"WHERE", "(">> \o seg.definition \o <<")", "AND">> \o IncomeNotNull)

(* C6: for every metric and two segment references that all resolve (the same
   segment twice included), generate_comparison_query returns exactly two
   ungrouped aggregate SELECT blocks joined by one UNION ALL, the first with
   segment_a's label and its parenthesized definition AND Income IS NOT NULL,
   the second likewise for segment_b, so that it yields exactly two rows. *)
C6_TwoBlocksUnionAll ==
    (/\ call.op = "generate_comparison_query"
     /\ MetricResolves(call.args[1])
     /\ \A ref \in {call.args[2], call.args[3]} :
           IsName(ref.type) /\ IsName(ref.name) /\ SegmentResolves(ref.type, ref.name))
        => /\ result.kind = "sql"
           /\ LET text   == Words(result.sql)
                  unions == Positions(text, "UNION")
              IN  /\ Len(unions) = 1
                  /\ StartsAt(text, unions[1], <<"UNION", "ALL">>)
                  /\ BlockFor(SubSeq(text, 1, unions[1] - 1),
                              SegmentNamed(call.args[2].type, call.args[2].name))
                  /\ BlockFor(SubSeq(text, unions[1] + 2, Len(text)),
                              SegmentNamed(call.args[3].type, call.args[3].name))
                  /\ ResultRows(text) = 2

\* a comparison of two different segments
C6_Witness ==
    /\ call.op = "generate_comparison_query"
    /\ MetricResolves(call.args[1])
    /\ call.args[2] = [type |-> "family_status", name |-> "parents"]
    /\ call.args[3] = [type |-> "family_status", name |-> "no_children"]
    /\ result.kind = "sql"
    /\ Count(result.sql, "SELECT") = 2

(* C7: a generator operation called again with the arguments of an earlier
   call, whatever calls were made in between, gives the result of the earlier
   call: the same SQL text, or the same error. *)
C7_SameArgumentsSameResult ==
    (/\ saved # NoSaved
     /\ call.op = saved.call.op
     /\ call.args = saved.call.args)
        => result = saved.result

\* an unfiltered metric query kept, and the same call made again after it
C7_Witness ==
    /\ saved # NoSaved
    /\ saved.later
    /\ saved.call.op = "generate_metric_sql"
    /\ saved.call.args[2] = NoFilters
    /\ saved.result.kind = "sql"
    /\ call.op = saved.call.op
    /\ call.args = saved.call.args
    /\ result = saved.result

\* a request that fails: its metric or a segment it names is unknown, or its intent is malformed
ValidTags == {"metric_query", "segment_breakdown", "comparison"}

RefComplete(ref) == ref # NoRef /\ ref.type # Missing /\ ref.name # Missing

MalformedIntent(intent) ==
    \/ DictGet(intent.intent) \notin ValidTags
    \/ intent.metric = Missing
    \/ intent.intent = "segment_breakdown" /\ intent.segment_type = Missing
    \/ intent.intent = "comparison"
          /\ (\/ intent.comparison = NoComparison
              \/ ~RefComplete(intent.comparison.segment_a)
              \/ ~RefComplete(intent.comparison.segment_b))

FailedRequest(outcome) == MalformedIntent(outcome.intent) \/ outcome.kind # "sql"

(* C8: in a sequence of requests a per-request failure (unknown metric,
   unknown segment, malformed intent) never stops the processing: the failed
   request yields an error result and the loop goes on to the next request. *)
C8_FailureNeverStopsProcessing ==
    \A k \in 1..Len(outcomes) :
        FailedRequest(outcomes[k]) => (outcomes[k].kind = "error_result" /\ ~halted)

(* C9: an intent whose tag is none of metric_query, segment_breakdown,
   comparison, or which lacks a field its tag requires, is surfaced as an
   error-shaped result: it reaches no generator operation and produces no SQL. *)
C9_MalformedIntentIsErrorResult ==
    \A k \in 1..Len(outcomes) :
        MalformedIntent(outcomes[k].intent)
            => /\ outcomes[k].kind = "error_result"
               /\ outcomes[k].generator = "none"

(* C10: after the load, no call of a generator operation or of a repository
   lookup, failing or not, changes the taxonomy, the metadata or the metric
   catalog. *)
C10_RepositoryUnchanged ==
    [][taxonomy' = taxonomy /\ metadata' = metadata /\ metrics' = metrics]_vars

\* a breakdown over a type the taxonomy does not have, after which it still does not have it
C10_Witness ==
    /\ call.op = "generate_segment_breakdown"
    /\ call.args[2] = "unknown_type"
    /\ result.kind = "sql"
    /\ \A k \in 1..Len(taxonomy) : taxonomy[k].type # "unknown_type"

(* C11: for every resolvable metric, generate_metric_sql selects exactly one
   column, aliased value: the metric expression wrapped in AVG(...) when the
   metric's classification is sum or calculated, and the bare expression
   otherwise. *)
C11_OneColumnAliasedValue ==
    (call.op = "generate_metric_sql" /\ MetricResolves(call.args[1]))
        => /\ result.kind = "sql"
           /\ LET text       == Words(result.sql)
                  metric     == MetricNamed(call.args[1])
                  expression == Words(metric.sql)
                  column     == IF metric.type \in {"sum", "calculated"}
                                THEN <<"AVG", "(">> \o expression \o <<")">>
                                ELSE expression
              IN  /\ Count(text, "SELECT") = 1
                  /\ StartsAt(text, 1, <<"SELECT">> \o column \o <<"as", "value", "FROM", "customers">>)

====
